---- MODULE Spec2Model ----
(***************************************************************************)
(* bluetooth-battery: the run of main() in src/main.rs as a state machine. *)
(* Text is a sequence of UTF-8 bytes (Rust String), so that ordering is    *)
(* the byte-wise lexicographic order of String and rendering is real       *)
(* concatenation.  D-Bus property values are tagged variants.  The object   *)
(* tree of org.bluez is chosen at the start of a run and held fixed during *)
(* it; any single bus call may still fail in transport.                    *)
(***************************************************************************)
EXTENDS Integers, Sequences, FiniteSets, Bags, TLC

\* longest address list given on the command line
MaxAddrs == 2

-----------------------------------------------------------------------------
(* D-Bus values: Variant<Box<dyn RefArg>>.  t is the wire type, n the      *)
(* numeric payload (booleans are 0/1), s the text payload.                 *)
Absent  == [t |-> "none", n |-> 0, s |-> <<>>]
Bool(b) == [t |-> "bool", n |-> IF b THEN 1 ELSE 0, s |-> <<>>]
Byte(n) == [t |-> "byte", n |-> n, s |-> <<>>]
UInt(n) == [t |-> "uint", n |-> n, s |-> <<>>]
Str(s)  == [t |-> "str", n |-> 0, s |-> s]

None == [some |-> FALSE, n |-> 0, s |-> <<>>]
SomeN(n) == [some |-> TRUE, n |-> n, s |-> <<>>]
SomeS(s) == [some |-> TRUE, n |-> 0, s |-> s]

\* x.0.as_u64(): integer-like values (booleans included) coerce, others do not
as_u64(x) == IF x.t \in {"bool", "byte", "uint"} THEN SomeN(x.n) ELSE None

\* x.0.as_str(): only text values
as_str(x) == IF x.t = "str" THEN SomeS(x.s) ELSE None

-----------------------------------------------------------------------------
(* Text literals of the program, as UTF-8 bytes.                           *)
audio_headset     == <<97, 117, 100, 105, 111, 45, 104, 101, 97, 100, 115, 101, 116>>
phone             == <<112, 104, 111, 110, 101>>
pda               == <<112, 100, 97>>
input_keyboard    == <<105, 110, 112, 117, 116, 45, 107, 101, 121, 98, 111, 97, 114, 100>>
input_mouse       == <<105, 110, 112, 117, 116, 45, 109, 111, 117, 115, 101>>
input_gaming      == <<105, 110, 112, 117, 116, 45, 103, 97, 109, 105, 110, 103>>
input_tablet      == <<105, 110, 112, 117, 116, 45, 116, 97, 98, 108, 101, 116>>
multimedia_player == <<109, 117, 108, 116, 105, 109, 101, 100, 105, 97, 45, 112, 108, 97, 121, 101, 114>>
printer           == <<112, 114, 105, 110, 116, 101, 114>>
scanner           == <<115, 99, 97, 110, 110, 101, 114>>

\* "<span font_desc='Material Symbols Outlined @opsz=20,FILL=1,GRAD=-25' rise='-3pt'>"
SpanOpen == <<60, 115, 112, 97, 110, 32, 102, 111, 110, 116, 95, 100, 101, 115, 99, 61, 39, 77, 97, 116, 101, 114, 105, 97, 108, 32, 83, 121, 109, 98, 111, 108, 115, 32, 79, 117, 116, 108, 105, 110, 101, 100, 32, 64, 111, 112, 115, 122, 61, 50, 48, 44, 70, 73, 76, 76, 61, 49, 44, 71, 82, 65, 68, 61, 45, 50, 53, 39, 32, 114, 105, 115, 101, 61, 39, 45, 51, 112, 116, 39, 62>>
\* "</span> "
SpanClose == <<60, 47, 115, 112, 97, 110, 62, 32>>

\* macro i3!($x)
i3m(x) == SpanOpen \o x \o SpanClose

\* Icon::emoji
emoji(icon) ==
    CASE icon = audio_headset -> SomeS(<<240, 159, 142, 167, 32>>)
      [] icon \in {phone, pda} -> SomeS(<<240, 159, 147, 177, 32>>)
      [] icon = input_keyboard -> SomeS(<<226, 140, 168, 239, 184, 143, 32>>)
      [] icon = input_mouse -> SomeS(<<240, 159, 150, 177, 239, 184, 143, 32>>)
      [] icon = input_gaming -> SomeS(<<240, 159, 142, 174, 32>>)
      [] icon = input_tablet -> SomeS(<<240, 159, 150, 141, 239, 184, 143, 32, 32>>)
      [] icon = multimedia_player -> SomeS(<<240, 159, 147, 187, 32>>)
      [] icon \in {printer, scanner} -> SomeS(<<240, 159, 150, 168, 239, 184, 143, 32, 32>>)
      [] OTHER -> None

\* Icon::material_symbols
material_symbols(icon) ==
    CASE icon = audio_headset -> SomeS(i3m(<<104, 101, 97, 100, 112, 104, 111, 110, 101, 115>>))
      [] icon \in {phone, pda} -> SomeS(i3m(<<115, 109, 97, 114, 116, 112, 104, 111, 110, 101>>))
      [] icon = input_keyboard -> SomeS(i3m(<<107, 101, 121, 98, 111, 97, 114, 100>>))
      [] icon = input_mouse -> SomeS(i3m(<<109, 111, 117, 115, 101>>))
      [] icon = input_gaming -> SomeS(i3m(<<115, 112, 111, 114, 116, 115, 95, 101, 115, 112, 111, 114, 116, 115>>))
      [] icon = input_tablet -> SomeS(i3m(<<116, 97, 98, 108, 101, 116, 95, 97, 110, 100, 114, 111, 105, 100>>))
      [] icon = multimedia_player -> SomeS(i3m(<<109, 101, 100, 105, 97, 95, 98, 108, 117, 101, 116, 111, 111, 116, 104, 95, 111, 110>>))
      [] icon = printer -> SomeS(i3m(<<112, 114, 105, 110, 116>>))
      [] icon = scanner -> SomeS(i3m(<<115, 99, 97, 110, 110, 101, 114>>))
      [] OTHER -> None

\* Option<&str>::unwrap_or_default
unwrap_or_default(o) == IF o.some THEN o.s ELSE <<>>

\* Display of an unsigned integer: decimal digits, no padding
RECURSIVE Decimal(_)
Decimal(n) == IF n < 10 THEN <<48 + n>> ELSE Decimal(n \div 10) \o <<48 + (n % 10)>>

\* variant of Glyph: the markup flag is not consulted
Glyph_AlwaysPlain(d, i3) == unwrap_or_default(emoji(d.icon))

\* the glyph selection shared by Device::long and Device::narrow
Glyph(d, i3) == unwrap_or_default(IF i3 THEN material_symbols(d.icon) ELSE emoji(d.icon))

\* Device::long: "{}{} ({}%)"
long(d, i3) == Glyph(d, i3) \o d.name \o <<32, 40>> \o Decimal(d.power) \o <<37, 41>>

\* Device::short: "{} {}%"
short(d) == d.name \o <<32>> \o Decimal(d.power) \o <<37>>

\* Device::narrow: "{}{}%"
narrow(d, i3) == Glyph(d, i3) \o Decimal(d.power) \o <<37>>

\* the match on opt.fmt inside the print loop
Render(d, fmt, i3) ==
    CASE fmt = "Long" -> long(d, i3)
      [] fmt = "Short" -> short(d)
      [] fmt = "Narrow" -> narrow(d, i3)

\* the separator printed when i < devices.len() - 1
Separator(fmt) == IF fmt = "Short" THEN <<32, 32>> ELSE <<32>>

-----------------------------------------------------------------------------
(* #[derive(PartialOrd, Ord)] on Device and Icon.                          *)

\* Ord for String: byte-wise lexicographic, a proper prefix is smaller
RECURSIVE StrCmp(_, _)
StrCmp(a, b) ==
    IF a = <<>> /\ b = <<>> THEN "Equal"
    ELSE IF a = <<>> THEN "Less"
    ELSE IF b = <<>> THEN "Greater"
    ELSE IF Head(a) < Head(b) THEN "Less"
    ELSE IF Head(a) > Head(b) THEN "Greater"
    ELSE StrCmp(Tail(a), Tail(b))

\* Ord for u64
NumCmp(a, b) == IF a < b THEN "Less" ELSE IF a > b THEN "Greater" ELSE "Equal"

\* variant of DeviceCmp: the fields declared in the order name, power, icon
DeviceCmp_PowerBeforeIcon(a, b) ==
    IF StrCmp(a.name, b.name) # "Equal" THEN StrCmp(a.name, b.name)
    ELSE IF NumCmp(a.power, b.power) # "Equal" THEN NumCmp(a.power, b.power)
    ELSE StrCmp(a.icon, b.icon)

\* derived Ord for Device: fields in declaration order name, icon, power
DeviceCmp(a, b) ==
    IF StrCmp(a.name, b.name) # "Equal" THEN StrCmp(a.name, b.name)
    ELSE IF StrCmp(a.icon, b.icon) # "Equal" THEN StrCmp(a.icon, b.icon)
    ELSE NumCmp(a.power, b.power)

\* one insertion step of the sort: x goes before the first element greater than it
RECURSIVE Insert(_, _)
Insert(x, sorted) ==
    IF sorted = <<>> THEN <<x>>
    ELSE IF DeviceCmp(x, Head(sorted)) = "Less" THEN <<x>> \o sorted
    ELSE <<Head(sorted)>> \o Insert(x, Tail(sorted))

\* devices.sort_unstable(): the slice ordered by Ord, every element kept
RECURSIVE sort_unstable(_)
sort_unstable(v) == IF v = <<>> THEN <<>> ELSE Insert(Head(v), sort_unstable(Tail(v)))

-----------------------------------------------------------------------------
(* The bus: object path -> interfaces -> properties.                       *)

\* an object with both interfaces
Obj(connected, name, icon, percentage) ==
    [dev1 |-> TRUE, Connected |-> connected, Name |-> name, Icon |-> icon,
     bat1 |-> TRUE, Percentage |-> percentage]

NameEmpty == <<>>
NameA == <<65>>
NameAb == <<65, 98>>
NameB == <<66>>
\* "camera-web": a freedesktop icon class outside the program's table
camera_web == <<99, 97, 109, 101, 114, 97, 45, 119, 101, 98>>

\* connected peripherals with the value types BlueZ publishes
WellTyped ==
    { Obj(Bool(TRUE), Str(NameB), Str(audio_headset), Byte(5)),
      Obj(Bool(TRUE), Str(NameB), Str(input_mouse), Byte(5)),
      Obj(Bool(TRUE), Str(NameB), Str(audio_headset), Byte(100)),
      Obj(Bool(TRUE), Str(NameA), Str(camera_web), Byte(42)),
      Obj(Bool(TRUE), Str(NameAb), Str(printer), Byte(7)),
      Obj(Bool(TRUE), Str(NameEmpty), Str(scanner), Byte(0)) }

\* objects that are not connected, incomplete or loosely typed
Odd ==
    { Obj(Bool(FALSE), Str(NameB), Str(audio_headset), Byte(5)),
      Obj(UInt(0), Str(NameB), Str(audio_headset), Byte(5)),
      Obj(Absent, Str(NameB), Str(audio_headset), Byte(5)),
      Obj(Str(<<49>>), Str(NameB), Str(audio_headset), Byte(5)),
      Obj(UInt(1), Str(NameB), Str(audio_headset), Byte(5)),
      Obj(Bool(TRUE), Absent, Str(audio_headset), Byte(5)),
      Obj(Bool(TRUE), UInt(7), Str(audio_headset), Byte(5)),
      Obj(Bool(TRUE), Str(NameB), Absent, Byte(5)),
      Obj(Bool(TRUE), Str(NameB), Byte(3), Byte(5)),
      Obj(Bool(TRUE), Str(NameB), Str(audio_headset), Absent),
      Obj(Bool(TRUE), Str(NameB), Str(audio_headset), Str(<<53>>)),
      Obj(Bool(TRUE), Str(NameB), Str(audio_headset), UInt(300)),
      [Obj(Bool(TRUE), Str(NameB), Str(audio_headset), Absent) EXCEPT !.bat1 = FALSE],
      [Obj(Absent, Absent, Absent, Byte(5)) EXCEPT !.dev1 = FALSE] }

\* "/org/bluez/hci0/dev_"
DevPrefix == <<47, 111, 114, 103, 47, 98, 108, 117, 101, 122, 47, 104, 99, 105, 48, 47, 100, 101, 118, 95>>
\* "/org/bluez/hci0/dev_A_1", "/org/bluez/hci0/dev_B_2", "/org/bluez/hci1/dev_C_3"
PathA1 == DevPrefix \o <<65, 95, 49>>
PathB2 == DevPrefix \o <<66, 95, 50>>
PathC3 == <<47, 111, 114, 103, 47, 98, 108, 117, 101, 122, 47, 104, 99, 105, 49, 47, 100, 101, 118, 95, 67, 95, 51>>
Paths == {PathA1, PathB2, PathC3}

\* the object trees the service may expose: any object at the first path,
\* a few at the other two (the third lives under another controller)
BusStates ==
    { b \in [Paths -> WellTyped \cup Odd] :
        /\ b[PathB2] \in { Obj(Bool(TRUE), Str(NameB), Str(input_mouse), Byte(5)),
                           Obj(Bool(TRUE), Str(NameB), Str(audio_headset), Byte(100)),
                           Obj(Bool(TRUE), Str(NameAb), Str(printer), Byte(7)),
                           Obj(Bool(FALSE), Str(NameB), Str(audio_headset), Byte(5)),
                           Obj(UInt(1), Str(NameB), Str(audio_headset), Byte(5)) }
        /\ b[PathC3] \in { Obj(Bool(TRUE), Str(NameA), Str(camera_web), Byte(42)),
                           Obj(Bool(FALSE), Str(NameB), Str(audio_headset), Byte(5)) } }

\* the command-line addresses "a:1", "b:2", "c:3"
Addresses == {<<97, 58, 49>>, <<98, 58, 50>>, <<99, 58, 51>>}

RECURSIVE SeqsUpTo(_, _)
SeqsUpTo(S, n) ==
    IF n = 0 THEN {<<>>}
    ELSE LET shorter == SeqsUpTo(S, n - 1)
         IN shorter \cup {Append(q, x) : q \in {r \in shorter : Len(r) = n - 1}, x \in S}

\* struct Opt after Opt::from_args
Opts == [fmt : {"Long", "Short", "Narrow"}, i3 : BOOLEAN, addresses : SeqsUpTo(Addresses, MaxAddrs)]

\* u8::to_ascii_uppercase
UpperByte(c) == IF c >= 97 /\ c <= 122 THEN c - 32 ELSE c

\* address.to_ascii_uppercase().replace(':', "_")
RECURSIVE Mangle(_)
Mangle(a) ==
    IF a = <<>> THEN <<>>
    ELSE <<IF UpperByte(Head(a)) = 58 THEN 95 ELSE UpperByte(Head(a))>> \o Mangle(Tail(a))

\* variant of ObjectPath: the address is used as typed
ObjectPath_Raw(address) == DevPrefix \o address

\* format!("/org/bluez/hci0/dev_{}", ...)
ObjectPath(address) == DevPrefix \o Mangle(address)

-----------------------------------------------------------------------------
(* Bulk Retriever: the filter_map closure over the managed objects.        *)

NoDevice == [some |-> FALSE, dev |-> [name |-> <<>>, icon |-> <<>>, power |-> 0]]
SomeDevice(name, icon, power) == [some |-> TRUE, dev |-> [name |-> name, icon |-> icon, power |-> power]]

\* variant of BulkConnected: a missing or non-integer Connected counts as connected
BulkConnected_AbsentIsConnected(v) == ~as_u64(v.Connected).some \/ as_u64(v.Connected).n # 0

\* device.get("Connected").and_then(|x| x.0.as_u64()).is_some_and(|x| x != 0)
BulkConnected(v) == as_u64(v.Connected).some /\ as_u64(v.Connected).n # 0

\* variant of BulkPower: a missing percentage defaults to 0 instead of dropping the object
BulkPower_Default(v) == IF v.bat1 /\ as_u64(v.Percentage).some THEN as_u64(v.Percentage) ELSE SomeN(0)

\* v.get("org.bluez.Battery1").and_then(|x| x.get("Percentage")).and_then(|x| x.0.as_u64())
BulkPower(v) == IF v.bat1 THEN as_u64(v.Percentage) ELSE None

\* the closure: every ? returns None, connected.then_some(Device {..}) at the end
bulk_decode(v) ==
    IF ~v.dev1 THEN NoDevice
    ELSE IF ~as_str(v.Name).some THEN NoDevice
    ELSE IF ~as_str(v.Icon).some THEN NoDevice
    ELSE IF ~BulkPower(v).some THEN NoDevice
    ELSE IF BulkConnected(v) THEN SomeDevice(as_str(v.Name).s, as_str(v.Icon).s, BulkPower(v).n)
    ELSE NoDevice

\* objects.into_values().filter_map(..).collect() over the values in iteration order
RECURSIVE filter_map(_)
filter_map(vals) ==
    IF vals = <<>> THEN <<>>
    ELSE (IF bulk_decode(Head(vals)).some THEN <<bulk_decode(Head(vals)).dev>> ELSE <<>>)
         \o filter_map(Tail(vals))

\* the iteration orders of the HashMap of managed objects
Orders == {o \in [1..Cardinality(Paths) -> Paths] : \A p \in Paths : \E j \in DOMAIN o : o[j] = p}

-----------------------------------------------------------------------------
(* Targeted Retriever: proxy.get::<T>(interface, property).                *)

Err == [ok |-> FALSE, n |-> 0, s |-> <<>>]
OkN(n) == [ok |-> TRUE, n |-> n, s |-> <<>>]
OkS(s) == [ok |-> TRUE, n |-> 0, s |-> s]

\* the value the service holds for a property, Absent when object, interface or property is missing
Lookup(b, path, iface, prop) ==
    IF path \notin DOMAIN b THEN Absent
    ELSE IF iface = "org.bluez.Device1" /\ b[path].dev1 THEN
        (CASE prop = "Connected" -> b[path].Connected
           [] prop = "Name" -> b[path].Name
           [] prop = "Icon" -> b[path].Icon
           [] OTHER -> Absent)
    ELSE IF iface = "org.bluez.Battery1" /\ b[path].bat1 /\ prop = "Percentage" THEN b[path].Percentage
    ELSE Absent

\* proxy.get::<T>: the reply must carry exactly the requested wire type
get(b, path, iface, prop, ty) ==
    IF Lookup(b, path, iface, prop).t # ty THEN Err
    ELSE IF ty = "str" THEN OkS(Lookup(b, path, iface, prop).s)
    ELSE OkN(Lookup(b, path, iface, prop).n)

\* a call that the transport may fail (service unreachable, timeout)
Call(up, b, path, iface, prop, ty) == IF up THEN get(b, path, iface, prop, ty) ELSE Err

\* variant of AfterConnected: a disconnected device is not skipped
AfterConnected_NoSkip(r) == IF ~r.ok THEN "error" ELSE "percentage"

\* variant of AfterConnected: a failed Connected read counts as disconnected
AfterConnected_ErrorIsSkip(r) == IF ~r.ok \/ r.n = 0 THEN "continue" ELSE "percentage"

\* lines 125-128: ? on the Connected read, then if !connected { continue; }
AfterConnected(r) == IF ~r.ok THEN "error" ELSE IF r.n = 0 THEN "continue" ELSE "percentage"

\* variant of AfterRead: the error of the read is dropped instead of propagated
AfterRead_Ignore(r, next) == next

\* the ? on the Percentage, Name and Icon reads
AfterRead(r, next) == IF ~r.ok THEN "error" ELSE next

\* where the for loop over opt.addresses goes after address k
LoopNext(k, addresses) == IF k < Len(addresses) THEN "connected" ELSE "sort"

-----------------------------------------------------------------------------
(* The print loop.                                                         *)

\* variant of Iteration: the separator test is off by one (i <= len - 1)
Iteration_TrailingSeparator(i, devs, fmt, i3) ==
    <<Render(devs[i + 1], fmt, i3)>>
    \o (IF i <= Len(devs) - 1 THEN <<Separator(fmt)>> ELSE <<>>)
    \o (IF i = Len(devs) - 1 THEN <<<<10>>>> ELSE <<>>)

\* what one iteration i (0-based) of the for loop writes: one element per print! call
Iteration(i, devs, fmt, i3) ==
    <<Render(devs[i + 1], fmt, i3)>>
    \o (IF i < Len(devs) - 1 THEN <<Separator(fmt)>> ELSE <<>>)
    \o (IF i = Len(devs) - 1 THEN <<<<10>>>> ELSE <<>>)

-----------------------------------------------------------------------------
VARIABLES
    pc,       \* position in main
    opt,      \* the parsed options
    bus,      \* the object tree of org.bluez during the run
    calls,    \* the bus calls issued so far, in order, with their outcome
    devices,  \* device_list / devices
    k,        \* index of the address the for loop is at (1-based)
    power,    \* local of the loop body
    name,     \* local of the loop body
    i,        \* index of the print loop (0-based)
    stdout    \* the writes to standard output, one element per print! call

vars == <<pc, opt, bus, calls, devices, k, power, name, i, stdout>>

BusCall(op, path, prop, ok) == [op |-> op, path |-> path, prop |-> prop, ok |-> ok]

Init ==
    /\ bus \in BusStates
    /\ opt \in Opts
    /\ pc = "connect"
    /\ calls = <<>>
    /\ devices = <<>>
    /\ k = 1
    /\ power = 0
    /\ name = <<>>
    /\ i = 0
    /\ stdout = <<>>

\* let conn = Connection::new_system()?; then the branch on opt.addresses.is_empty()
Connect ==
    /\ pc = "connect"
    /\ \E ok \in BOOLEAN :
        /\ calls' = Append(calls, BusCall("Connect", <<>>, "", ok))
        /\ pc' = IF ~ok THEN "error"
                 ELSE IF opt.addresses = <<>> THEN "bulk" ELSE "connected"
    /\ UNCHANGED <<opt, bus, devices, k, power, name, i, stdout>>

\* proxy.get_managed_objects()? and the filter_map over its values
GetManagedObjects ==
    /\ pc = "bulk"
    /\ \E ok \in BOOLEAN, order \in Orders :
        /\ calls' = Append(calls, BusCall("GetManagedObjects", <<47>>, "", ok))
        /\ pc' = IF ok THEN "sort" ELSE "error"
        /\ devices' = IF ok THEN filter_map([j \in DOMAIN order |-> bus[order[j]]]) ELSE devices
    /\ UNCHANGED <<opt, bus, k, power, name, i, stdout>>

\* let connected: bool = proxy.get("org.bluez.Device1", "Connected")?; if !connected { continue; }
ReadConnected ==
    /\ pc = "connected"
    /\ \E up \in BOOLEAN :
        LET path == ObjectPath(opt.addresses[k])
            r == Call(up, bus, path, "org.bluez.Device1", "Connected", "bool")
            to == AfterConnected(r)
        IN /\ calls' = Append(calls, BusCall("Get", path, "Connected", r.ok))
           /\ pc' = IF to = "continue" THEN LoopNext(k, opt.addresses) ELSE to
           /\ k' = IF to = "continue" THEN k + 1 ELSE k
    /\ UNCHANGED <<opt, bus, devices, power, name, i, stdout>>

\* let power: u8 = proxy.get("org.bluez.Battery1", "Percentage")?;
ReadPercentage ==
    /\ pc = "percentage"
    /\ \E up \in BOOLEAN :
        LET path == ObjectPath(opt.addresses[k])
            r == Call(up, bus, path, "org.bluez.Battery1", "Percentage", "byte")
        IN /\ calls' = Append(calls, BusCall("Get", path, "Percentage", r.ok))
           /\ pc' = AfterRead(r, "name")
           /\ power' = IF r.ok THEN r.n ELSE power
    /\ UNCHANGED <<opt, bus, devices, k, name, i, stdout>>

\* let name: String = proxy.get("org.bluez.Device1", "Name")?;
ReadName ==
    /\ pc = "name"
    /\ \E up \in BOOLEAN :
        LET path == ObjectPath(opt.addresses[k])
            r == Call(up, bus, path, "org.bluez.Device1", "Name", "str")
        IN /\ calls' = Append(calls, BusCall("Get", path, "Name", r.ok))
           /\ pc' = AfterRead(r, "icon")
           /\ name' = IF r.ok THEN r.s ELSE name
    /\ UNCHANGED <<opt, bus, devices, k, power, i, stdout>>

\* variant of ReadIcon: the record is printed as soon as it is built
ReadIcon_Streaming ==
    /\ pc = "icon"
    /\ \E up \in BOOLEAN :
        LET path == ObjectPath(opt.addresses[k])
            r == Call(up, bus, path, "org.bluez.Device1", "Icon", "str")
            to == AfterRead(r, "push")
            d == [name |-> name, icon |-> r.s, power |-> power]
        IN /\ calls' = Append(calls, BusCall("Get", path, "Icon", r.ok))
           /\ pc' = IF to = "push" THEN LoopNext(k, opt.addresses) ELSE to
           /\ devices' = IF to = "push" THEN Append(devices, d) ELSE devices
           /\ stdout' = IF to = "push" THEN Append(stdout, Render(d, opt.fmt, opt.i3)) ELSE stdout
           /\ k' = IF to = "push" THEN k + 1 ELSE k
           /\ power' = IF to = "push" THEN 0 ELSE power
           /\ name' = IF to = "push" THEN <<>> ELSE name
    /\ UNCHANGED <<opt, bus, i>>

\* let icon: String = proxy.get("org.bluez.Device1", "Icon")?; device_list.push(Device {..})
ReadIcon ==
    /\ pc = "icon"
    /\ \E up \in BOOLEAN :
        LET path == ObjectPath(opt.addresses[k])
            r == Call(up, bus, path, "org.bluez.Device1", "Icon", "str")
            to == AfterRead(r, "push")
        IN /\ calls' = Append(calls, BusCall("Get", path, "Icon", r.ok))
           /\ pc' = IF to = "push" THEN LoopNext(k, opt.addresses) ELSE to
           /\ devices' = IF to = "push"
                         THEN Append(devices, [name |-> name, icon |-> r.s, power |-> power])
                         ELSE devices
           /\ k' = IF to = "push" THEN k + 1 ELSE k
           /\ power' = IF to = "push" THEN 0 ELSE power
           /\ name' = IF to = "push" THEN <<>> ELSE name
    /\ UNCHANGED <<opt, bus, i, stdout>>

\* devices.sort_unstable();
Sort ==
    /\ pc = "sort"
    /\ devices' = sort_unstable(devices)
    /\ pc' = "print"
    /\ UNCHANGED <<opt, bus, calls, k, power, name, i, stdout>>

\* one iteration of for (i, device) in devices.iter().enumerate()
PrintDevice ==
    /\ pc = "print"
    /\ i < Len(devices)
    /\ stdout' = stdout \o Iteration(i, devices, opt.fmt, opt.i3)
    /\ i' = i + 1
    /\ UNCHANGED <<pc, opt, bus, calls, devices, k, power, name>>

\* the loop is exhausted: Ok(())
Return ==
    /\ pc = "print"
    /\ i = Len(devices)
    /\ pc' = "done"
    /\ UNCHANGED <<opt, bus, calls, devices, k, power, name, i, stdout>>

Next ==
    \/ Connect
    \/ GetManagedObjects
    \/ ReadConnected
    \/ ReadPercentage
    \/ ReadName
    \/ ReadIcon
    \/ Sort
    \/ PrintDevice
    \/ Return

Spec == Init /\ [][Next]_vars

-----------------------------------------------------------------------------
(* Vocabulary of the properties.                                           *)

Targeted == opt.addresses # <<>>
Bulk == opt.addresses = <<>>
Retrieved == pc \in {"sort", "print", "done"}
LastCall == calls[Len(calls)]

\* the value the service holds for the property a read asked for
Held(path, prop) ==
    Lookup(bus, path, IF prop = "Percentage" THEN "org.bluez.Battery1" ELSE "org.bluez.Device1", prop)

\* the wire type a read of the property requires
Wanted(prop) == IF prop = "Connected" THEN "bool" ELSE IF prop = "Percentage" THEN "byte" ELSE "str"

IsRead(c, prop) == calls[c].op = "Get" /\ calls[c].prop = prop
Reads(prop) == {c \in DOMAIN calls : IsRead(c, prop)}
AddrPath(j) == ObjectPath(opt.addresses[j])

\* C1: in the Targeted Retriever a Connected read that returns false is a skip
\* (no error, no record, the next read is the next address's Connected), and a
\* failed Percentage, Name or Icon read of a connected device is the last call
\* of the run, which ends in error whatever the later addresses hold.
C1_SkipOrAbort ==
    Targeted =>
      /\ \A c \in Reads("Connected") :
            (calls[c].ok /\ Held(calls[c].path, "Connected") = Bool(FALSE)) =>
               /\ c = Len(calls) => pc \in {"connected", "sort", "print", "done"}
               /\ c < Len(calls) => IsRead(c + 1, "Connected")
      /\ \A c \in DOMAIN calls :
            (calls[c].op = "Get" /\ calls[c].prop # "Connected" /\ ~calls[c].ok) =>
               /\ c = Len(calls)
               /\ pc = "error"
               /\ Held(calls[c - 1].path, "Connected") = Bool(TRUE)
      /\ Retrieved =>
            /\ Len(devices) = Cardinality({j \in DOMAIN opt.addresses :
                                             Held(AddrPath(j), "Connected") = Bool(TRUE)})
            /\ \A j \in DOMAIN opt.addresses :
                  Held(AddrPath(j), "Connected") = Bool(TRUE) =>
                     \A prop \in {"Percentage", "Name", "Icon"} :
                        Held(AddrPath(j), prop).t = Wanted(prop)

\* C1 witness: a disconnected address was skipped, then a connected device whose
\* Percentage cannot be read aborted the run
C1_Witness ==
    /\ pc = "error"
    /\ Len(calls) = 4
    /\ IsRead(2, "Connected") /\ Held(calls[2].path, "Connected") = Bool(FALSE)
    /\ IsRead(4, "Percentage") /\ Held(calls[4].path, "Percentage").t # "byte"
    /\ devices = <<>>

\* C10: a failed Connected read is not a skip: it is the last call of the run,
\* the run ends in error with nothing printed and no further record; every
\* address that was passed over without a record held a boolean false.
C10_ConnectedReadFailureAborts ==
    Targeted =>
      /\ \A c \in Reads("Connected") :
            ~calls[c].ok => c = Len(calls) /\ pc = "error" /\ stdout = <<>>
      /\ pc = "error" => stdout = <<>> /\ Len(devices) = Cardinality({c \in Reads("Icon") : calls[c].ok})
      /\ \A j \in DOMAIN opt.addresses :
            (j < k \/ Retrieved) => Held(AddrPath(j), "Connected").t = "bool"
      /\ Retrieved =>
            Cardinality({j \in DOMAIN opt.addresses : Held(AddrPath(j), "Connected") = Bool(FALSE)})
               = Len(opt.addresses) - Len(devices)

\* C10 witness: the Connected read of an address with no readable boolean failed
\* while a later address was still to come
C10_Witness ==
    /\ pc = "error"
    /\ IsRead(Len(calls), "Connected")
    /\ Held(LastCall.path, "Connected").t # "bool"
    /\ k < Len(opt.addresses)

\* the Connected reads of the run, in the order issued
ConnectedReads == LET IsConn(x) == x.op = "Get" /\ x.prop = "Connected" IN SelectSeq(calls, IsConn)

\* C7: bus calls are sequential and bounded: nothing follows a failed call; with
\* no address exactly one bulk query and no read; with addresses no bulk query,
\* the Connected reads follow the input order, a disconnected device gets that
\* one read and a connected one gets Connected, Percentage, Name, Icon.
C7_SequentialBounded ==
    /\ \A c \in DOMAIN calls : (calls[c].op = "Connect") <=> (c = 1)
    /\ \A c \in DOMAIN calls : ~calls[c].ok => c = Len(calls) /\ pc = "error"
    /\ Bulk =>
         /\ \A c \in DOMAIN calls : c > 1 => calls[c].op = "GetManagedObjects" /\ c = 2
         /\ Retrieved => Len(calls) = 2
    /\ Targeted =>
         /\ \A c \in DOMAIN calls : c > 1 => calls[c].op = "Get"
         /\ Len(ConnectedReads) <= Len(opt.addresses)
         /\ \A j \in DOMAIN ConnectedReads : ConnectedReads[j].path = AddrPath(j)
         /\ Len(calls) >= 2 => IsRead(2, "Connected")
         /\ \A c \in DOMAIN calls : (c > 1 /\ c < Len(calls)) =>
              /\ IsRead(c, "Connected") =>
                    IF Held(calls[c].path, "Connected") = Bool(TRUE)
                    THEN IsRead(c + 1, "Percentage") /\ calls[c + 1].path = calls[c].path
                    ELSE IsRead(c + 1, "Connected")
              /\ IsRead(c, "Percentage") => IsRead(c + 1, "Name") /\ calls[c + 1].path = calls[c].path
              /\ IsRead(c, "Name") => IsRead(c + 1, "Icon") /\ calls[c + 1].path = calls[c].path
              /\ IsRead(c, "Icon") => IsRead(c + 1, "Connected")
         /\ Retrieved =>
              /\ Len(ConnectedReads) = Len(opt.addresses)
              /\ Len(calls) - 1 = Len(opt.addresses)
                    + 3 * Cardinality({j \in DOMAIN opt.addresses :
                                         Held(AddrPath(j), "Connected") = Bool(TRUE)})

\* C7 witness: a finished run over a disconnected and then a connected address:
\* one read, then four
C7_Witness ==
    /\ pc = "done"
    /\ Len(opt.addresses) = 2
    /\ Len(calls) = 6
    /\ IsRead(2, "Connected") /\ IsRead(3, "Connected") /\ IsRead(6, "Icon")

\* C2: no partial output: whenever something has been written every bus call of
\* the run has succeeded, no bus call is issued in or after a step that leaves
\* output written, and a run that ended in error has written nothing.
C2_NoPartialOutput ==
    /\ [](stdout # <<>> => \A c \in DOMAIN calls : calls[c].ok)
    /\ [](pc = "error" => stdout = <<>>)
    /\ [][stdout' # <<>> => calls' = calls]_vars

\* C2 witness: a run that had already built a record failed and printed nothing
C2_Witness == pc = "error" /\ Len(devices) >= 1 /\ stdout = <<>> /\ ~LastCall.ok

-----------------------------------------------------------------------------
(* What an object of the tree exposes, read off the tree itself.           *)

IntLike(x) == x.t \in {"bool", "byte", "uint"}
Range(q) == {q[j] : j \in DOMAIN q}
Count(r, q) == Cardinality({j \in DOMAIN q : q[j] = r})
RecordOf(o) == [name |-> o.Name.s, icon |-> o.Icon.s, power |-> o.Percentage.n]

\* the object lacks Device1, a Battery1 Percentage, a text Name, a text Icon,
\* or its Connected is absent or zero
Lacking(o) ==
    \/ ~o.dev1
    \/ ~o.bat1 \/ o.Percentage.t = "none"
    \/ o.Name.t # "str"
    \/ o.Icon.t # "str"
    \/ o.Connected.t = "none"
    \/ (IntLike(o.Connected) /\ o.Connected.n = 0)

\* a connected object with every field present and of a usable type
WellFormedConnected(o) ==
    /\ o.dev1 /\ o.bat1
    /\ IntLike(o.Connected) /\ o.Connected.n # 0
    /\ o.Name.t = "str" /\ o.Icon.t = "str"
    /\ o.Percentage.t \in {"byte", "uint"}

\* C3: in the Bulk Retriever no record stems from an object that lacks Device1,
\* a Percentage, a text Name or Icon, or whose Connected is absent or zero; such
\* objects raise no error and every well-formed connected object is emitted.
C3_BulkDropPolicy ==
    Bulk =>
      /\ (Len(calls) = 2 /\ calls[2].ok) => Retrieved
      /\ Retrieved =>
           /\ \A r \in Range(devices) :
                 Count(r, devices) <= Cardinality({p \in Paths : ~Lacking(bus[p]) /\ RecordOf(bus[p]) = r})
           /\ \A p \in Paths :
                 WellFormedConnected(bus[p]) =>
                    Count(RecordOf(bus[p]), devices)
                       >= Cardinality({q \in Paths : WellFormedConnected(bus[q])
                                                      /\ RecordOf(bus[q]) = RecordOf(bus[p])})

\* C3 witness: a bulk run finished with two records while the first object,
\* connected and named, had no Percentage
C3_Witness ==
    /\ Bulk /\ pc = "done"
    /\ bus[PathA1].Percentage.t = "none" /\ bus[PathA1].Connected = Bool(TRUE)
    /\ bus[PathA1].Name.t = "str" /\ bus[PathA1].Icon.t = "str"
    /\ Len(devices) = 2

\* the object is connected and exposes exactly the fields of the record
Exposes(o, d) ==
    /\ o.dev1 /\ o.bat1
    /\ IntLike(o.Connected) /\ o.Connected.n # 0
    /\ o.Percentage.t \in {"byte", "uint"} /\ o.Percentage.n = d.power
    /\ o.Name.t = "str" /\ o.Name.s = d.name
    /\ o.Icon.t = "str" /\ o.Icon.s = d.icon

\* C4 as stated: every record belongs to a connected peripheral exposing a
\* percentage, a NON-EMPTY name and an icon string.
C4_Original ==
    \A j \in DOMAIN devices :
       /\ \E p \in Paths : Exposes(bus[p], devices[j])
       /\ devices[j].name # <<>>

\* C4 amended: every record belongs to a connected peripheral exposing a
\* percentage, a text name (possibly empty) and an icon string.
C4_RecordInvariant ==
    \A j \in DOMAIN devices : \E p \in Paths : Exposes(bus[p], devices[j])

\* C4 witness: a finished run holds a record whose name is the empty text
C4_Witness == pc = "done" /\ \E j \in DOMAIN devices : devices[j].name = <<>>

\* C5: n records are written as n texts with a separator (two spaces in Short,
\* one space otherwise) after each but the last and one newline after the last;
\* for n = 0 nothing is written.
C5_JoinAndNewline ==
    LET n == Len(devices)
        sep == IF opt.fmt = "Short" THEN <<32, 32>> ELSE <<32>>
        nl == <<10>>
    IN pc \in {"print", "done"} =>
         /\ Len(stdout) = 2 * i
         /\ \A m \in DOMAIN stdout :
              /\ (m % 2 = 1) => stdout[m] \notin {sep, nl}
              /\ (m % 2 = 0 /\ m < 2 * n) => stdout[m] = sep
              /\ (m = 2 * n) => stdout[m] = nl
         /\ pc = "done" =>
              /\ i = n
              /\ n = 0 => stdout = <<>>
              /\ n > 0 => /\ Count(sep, stdout) = n - 1
                          /\ Count(nl, stdout) = 1
                          /\ stdout[Len(stdout)] = nl

\* C5 witness: three records were printed in Short mode
C5_Witness == pc = "done" /\ Len(devices) = 3 /\ opt.fmt = "Short"

\* byte-wise lexicographic "strictly before", stated by the first differing position
LexLess(a, b) ==
    \E m \in 1..Len(b) :
       /\ Len(a) >= m - 1
       /\ \A q \in 1..(m - 1) : a[q] = b[q]
       /\ (Len(a) = m - 1 \/ a[m] < b[m])

\* the key (name, icon, power) of a is not after that of b
KeyLeq(a, b) ==
    \/ LexLess(a.name, b.name)
    \/ a.name = b.name /\ LexLess(a.icon, b.icon)
    \/ a.name = b.name /\ a.icon = b.icon /\ a.power <= b.power

KeySorted(q) == \A x, y \in DOMAIN q : x < y => KeyLeq(q[x], q[y])

\* C6: the sort step keeps every record with its multiplicity and leaves the
\* sequence ascending by (name, icon, power); the records are printed in that order.
C6_Orderer ==
    /\ [][pc = "sort" =>
            /\ Len(devices') = Len(devices)
            /\ \A r \in Range(devices) \cup Range(devices') : Count(r, devices') = Count(r, devices)
            /\ KeySorted(devices')]_vars
    /\ [](pc \in {"print", "done"} =>
            /\ KeySorted(devices)
            /\ \A j \in 1..i : stdout[2 * j - 1] = Render(devices[j], opt.fmt, opt.i3))

\* C6 witness: three printed records where a name tie was broken by the icon
\* against the order of the powers
C6_Witness ==
    /\ pc = "done" /\ Len(devices) = 3
    /\ \E j \in 1..2 :
          /\ devices[j].name = devices[j + 1].name
          /\ devices[j].icon # devices[j + 1].icon
          /\ devices[j].power > devices[j + 1].power

\* the ten icon classes of the table
Recognized ==
    {audio_headset, phone, pda, input_keyboard, input_mouse, input_gaming,
     input_tablet, multimedia_player, printer, scanner}

\* the glyph the record's icon class stands for under the run's markup flag
ExpectedGlyph(d) ==
    IF d.icon \notin Recognized THEN <<>>
    ELSE IF opt.i3 THEN material_symbols(d.icon).s ELSE emoji(d.icon).s

\* the decimal numeral of a number below 1000, digit by digit
Numeral(n) ==
    IF n < 10 THEN <<48 + n>>
    ELSE IF n < 100 THEN <<48 + (n \div 10), 48 + (n % 10)>>
    ELSE <<48 + (n \div 100), 48 + ((n \div 10) % 10), 48 + (n % 10)>>

\* C8: every printed record reads glyph + name + " (" + power + "%)" in Long,
\* glyph + power + "%" in Narrow and name + " " + power + "%" in Short (no glyph,
\* the markup flag ignored); the glyph is the plain or the markup one by the
\* flag, and nothing at all for an icon class outside the table.
C8_RecordRendering ==
    /\ \A c \in Recognized : emoji(c).some /\ material_symbols(c).some
                              /\ emoji(c).s # <<>> /\ material_symbols(c).s # emoji(c).s
    /\ pc \in {"print", "done"} =>
         \A j \in 1..i :
            LET d == devices[j]
                text == stdout[2 * j - 1]
            IN /\ opt.fmt = "Long" =>
                    text = ExpectedGlyph(d) \o d.name \o <<32, 40>> \o Numeral(d.power) \o <<37, 41>>
               /\ opt.fmt = "Narrow" =>
                    text = ExpectedGlyph(d) \o Numeral(d.power) \o <<37>>
               /\ opt.fmt = "Short" =>
                    text = d.name \o <<32>> \o Numeral(d.power) \o <<37>>

\* C8 witness: a markup Long run printed a record with an unknown icon class and
\* one with a three-digit power and a known icon class
C8_Witness ==
    /\ pc = "done" /\ opt.fmt = "Long" /\ opt.i3
    /\ \E j \in DOMAIN devices : devices[j].icon = camera_web
    /\ \E j \in DOMAIN devices : devices[j].icon = audio_headset /\ devices[j].power = 100

\* the objects of the tree that are connected and expose a text Name, a text
\* Icon and a Percentage
ConnectedBatteryDevices == {p \in Paths : WellFormedConnected(bus[p])}

\* the object carries the wire types BlueZ publishes: boolean Connected, byte Percentage
StrictlyTyped(o) == o.Connected.t = "bool" /\ o.Percentage.t = "byte"

\* the object path /org/bluez/hci0/dev_<ADDR> an address names
Names(a, p) ==
    \/ a = <<97, 58, 49>> /\ p = PathA1
    \/ a = <<98, 58, 50>> /\ p = PathB2

\* the address list names exactly the paths in S, each once
NamesExactly(S) ==
    /\ Len(opt.addresses) = Cardinality(S)
    /\ \A p \in S : \E j \in DOMAIN opt.addresses : Names(opt.addresses[j], p)
    /\ \A j \in DOMAIN opt.addresses : \E p \in S : Names(opt.addresses[j], p)

\* what the Bulk Retriever decodes from the tree, sorted
BulkSorted ==
    LET order == CHOOSE o \in Orders : TRUE
    IN sort_unstable(filter_map([j \in DOMAIN order |-> bus[order[j]]]))

\* everything the print loop writes for a sequence of records
RECURSIVE Printed(_, _)
Printed(j, devs) ==
    IF j >= Len(devs) THEN <<>>
    ELSE Iteration(j, devs, opt.fmt, opt.i3) \o Printed(j + 1, devs)

\* the last call failed although the service holds the property with the type asked for
TransportFailure ==
    /\ pc = "error"
    /\ LastCall.op = "Connect" \/ Held(LastCall.path, LastCall.prop).t = Wanted(LastCall.prop)

\* C9 as stated: for any bus state, when the address list names exactly the
\* connected battery devices of the tree, the targeted run ends with the records
\* and the output of the bulk run (unless the transport fails).
C9_Original ==
    (Targeted /\ pc \in {"done", "error"} /\ NamesExactly(ConnectedBatteryDevices)) =>
       \/ TransportFailure
       \/ pc = "done" /\ devices = BulkSorted /\ stdout = Printed(0, BulkSorted)

\* C9 amended: the same, for bus states in which every connected battery device
\* of the tree carries a boolean Connected and a byte Percentage.
C9_StrategiesAgree ==
    (/\ Targeted /\ pc \in {"done", "error"}
     /\ NamesExactly(ConnectedBatteryDevices)
     /\ \A p \in ConnectedBatteryDevices : StrictlyTyped(bus[p])) =>
       \/ TransportFailure
       \/ pc = "done" /\ devices = BulkSorted /\ stdout = Printed(0, BulkSorted)

\* C9 witness: a targeted run over the two connected battery devices of the
\* tree finished, and the sort put the second address's record first
C9_Witness ==
    /\ Targeted /\ pc = "done" /\ Len(devices) = 2
    /\ NamesExactly(ConnectedBatteryDevices)
    /\ \A p \in ConnectedBatteryDevices : StrictlyTyped(bus[p])
    /\ devices[1] # devices[2]
    /\ devices[1].name = Held(AddrPath(2), "Name").s
    /\ devices[1].icon = Held(AddrPath(2), "Icon").s

====
